---------------------------- MODULE Spec2Model ----------------------------
(***************************************************************************)
(* Contract management system: the multi-role contract state machine       *)
(* (models/contract.rs, struct Contract) and the signing service over the  *)
(* persisted two-party contract row (services/contract.rs and              *)
(* models/contract.rs, struct Model); the DID resolver with its TTL cache   *)
(* (auth/did/resolver.rs) and the authentication challenges                *)
(* (auth/did/challenge.rs).                                                *)
(*                                                                         *)
(* An Option<T> of the source is modelled as a set with at most one        *)
(* element: {} is None, {v} is Some(v).                                    *)
(***************************************************************************)
EXTENDS Integers, Sequences, FiniteSets, Bags, TLC

\* ------------------------------------------------------------------ bounds
\* Longest parties vector explored (Vec<ContractParty> is unbounded).
MaxParties == 2
\* Utc::now() ranges over 0..MaxTime.
MaxTime == 1

\* The DIDs, signature strings and termination reasons the calls are made with.
DIDs == {"did:example:provider1", "did:example:provider2",
         "did:example:consumer", "did:example:infra"}
Sigs == {"sig1"}
Reasons == {"reason1", "reason2"}
Times == 0..MaxTime

\* PartyRole (models/contract.rs)
PartyRole == {"DataProvider", "DataConsumer", "InfrastructureProvider"}

\* ContractStatus (models/contract.rs)
ContractStatus ==
    {"Draft", "PendingSignatures", "Active", "Completed", "Terminated", "Expired"}

VARIABLES
    \* struct Contract (models/contract.rs)
    parties,             \* Vec<ContractParty>
    status,              \* ContractStatus
    termination_reason,  \* Option<String>
    \* the wall clock read by Utc::now()
    now,
    \* the last call on the Contract and what it returned
    ret,
    \* the persisted contract row (struct Model, table "contracts")
    db,
    \* the signature events recorded by BlockchainService::record_signature,
    \* as a bag (the order of the ledger's events is not modelled)
    chain,
    \* the sign_contract calls in flight: position, arguments and locals
    calls,
    \* the AuthChallenge held by the authentication flow (Option<AuthChallenge>)
    challenge,
    \* MultiResolver.cache: DID string -> Option<(Document, DateTime<Utc>)>
    cache,
    \* the MultiResolver::resolve calls in flight: position, argument and locals
    rcalls,
    \* the RwLock around MultiResolver.cache: the guards held and the queue of
    \* the tasks waiting for one
    lock

contractVars == <<parties, status, termination_reason, ret>>
svcVars == <<db, chain, calls>>
authVars == <<challenge, cache, rcalls, lock>>
vars == <<parties, status, termination_reason, now, ret, db, chain, calls,
          challenge, cache, rcalls, lock>>

\* ======================================================================
\* Contract: the multi-role state machine (models/contract.rs lines 110-236)
\* ======================================================================

\* ContractParty as pushed by add_party: unsigned.
NewParty(did, role) ==
    [did |-> did, role |-> role, signed_at |-> {}, signature |-> {}]

\* self.parties.iter().any(|p| p.role == role)
HasRole(ps, role) == \E i \in DOMAIN ps : ps[i].role = role

\* self.parties.iter().any(|p| p.did == did)
HasDid(ps, did) == \E i \in DOMAIN ps : ps[i].did = did

\* The duplicate check by DID alone, whatever the role
AddPartyRejectsByDid(ps, did, role) == HasDid(ps, did)

\* The duplicate check of add_party, by role: true when the call is rejected.
AddPartyRejects(ps, did, role) ==
    IF role \in {"DataConsumer", "InfrastructureProvider"}
    THEN HasRole(ps, role)
    ELSE HasDid(ps, did)

\* The error string add_party returns on rejection.
AddPartyError(role) ==
    IF role \in {"DataConsumer", "InfrastructureProvider"}
    THEN "Party with role already exists"
    ELSE "Party with this DID already exists"

\* Contract::add_party. The vector grows only up to MaxParties.
AddParty(did, role) ==
    /\ IF AddPartyRejects(parties, did, role)
       THEN /\ ret' = [op |-> "add_party", res |-> AddPartyError(role)]
            /\ UNCHANGED parties
       ELSE /\ Len(parties) < MaxParties
            /\ parties' = Append(parties, NewParty(did, role))
            /\ ret' = [op |-> "add_party", res |-> "Ok"]
    /\ UNCHANGED <<status, termination_reason, now, svcVars, authVars>>

\* self.parties.iter_mut().find(|p| p.did == did): index of the first match, 0 if none
FindParty(ps, did) ==
    IF HasDid(ps, did)
    THEN CHOOSE i \in DOMAIN ps :
            /\ ps[i].did = did
            /\ \A j \in DOMAIN ps : ps[j].did = did => i <= j
    ELSE 0

\* The quorum test with any() in place of all()
AllSignedAsAny(ps) == \E i \in DOMAIN ps : ps[i].signature # {}

\* self.parties.iter().all(|p| p.signature.is_some())
AllSigned(ps) == \A i \in DOMAIN ps : ps[i].signature # {}

\* The status sign() assigns after recording the signature.
SignStatus(ps) == IF AllSigned(ps) THEN "Active" ELSE "PendingSignatures"

\* sign() with the failed lookup falling through to the status update
SignFallThrough(did, signature) ==
    LET i == FindParty(parties, did) IN
    /\ IF i = 0
       THEN /\ ret' = [op |-> "sign", res |-> "Party not found"]
            /\ status' = SignStatus(parties)
            /\ UNCHANGED parties
       ELSE /\ parties' = [parties EXCEPT ![i].signature = {signature},
                                          ![i].signed_at = {now}]
            /\ status' = SignStatus(parties')
            /\ ret' = [op |-> "sign", res |-> "Ok"]
    /\ UNCHANGED <<termination_reason, now, svcVars, authVars>>

\* Contract::sign
Sign(did, signature) ==
    LET i == FindParty(parties, did) IN
    /\ IF i = 0
       THEN /\ ret' = [op |-> "sign", res |-> "Party not found"]
            /\ UNCHANGED <<parties, status>>
       ELSE /\ parties' = [parties EXCEPT ![i].signature = {signature},
                                          ![i].signed_at = {now}]
            /\ status' = SignStatus(parties')
            /\ ret' = [op |-> "sign", res |-> "Ok"]
    /\ UNCHANGED <<termination_reason, now, svcVars, authVars>>

\* Contract::terminate
Terminate(reason) ==
    /\ status' = "Terminated"
    /\ termination_reason' = {reason}
    /\ ret' = [op |-> "terminate", res |-> "Ok"]
    /\ UNCHANGED <<parties, now, svcVars, authVars>>

\* Time passes between calls.
Tick ==
    /\ now < MaxTime
    /\ now' = now + 1
    /\ UNCHANGED <<contractVars, svcVars, authVars>>

\* The strings resolve() is called with, as sequences of characters:
\* "did:example:123" and "did:unknown:123" (test_multi_resolver), "invalid"
\* (test_parse_did_method) and "did:example", a DID cut after the method.
DidExample123 ==
    <<"d", "i", "d", ":", "e", "x", "a", "m", "p", "l", "e", ":", "1", "2", "3">>
DidUnknown123 ==
    <<"d", "i", "d", ":", "u", "n", "k", "n", "o", "w", "n", ":", "1", "2", "3">>
DidExample == <<"d", "i", "d", ":", "e", "x", "a", "m", "p", "l", "e">>
Invalid == <<"i", "n", "v", "a", "l", "i", "d">>
\* The method name "example" of register_resolver.
EXAMPLE == <<"e", "x", "a", "m", "p", "l", "e">>
ResolveInputs == {DidExample123, DidUnknown123, DidExample, Invalid}

\* The resolve calls that may be in flight at once (the resolver is shared
\* through an Arc and resolve takes &self).
ResolveIds == {"r1", "r2"}

\* HashMap::new(): no DID has an entry.
EmptyCache == [d \in ResolveInputs |-> {}]

\* RwLock::new: no guard held, no task waiting.
Unlocked == [readers |-> {}, writer |-> {}, queue |-> <<>>]

\* No resolve call in flight.
IdleResolve ==
    [pc |-> "idle", did |-> <<>>, invoked |-> FALSE, document |-> {},
     result |-> "", at |-> 0]

\* provider_did and consumer_did of the row, fixed at creation.
provider_did == "did:example:provider1"
consumer_did == "did:example:consumer"

\* Model::new: a Draft row with no signatures for the two DIDs.
ModelNew(provider, consumer) ==
    [status |-> "Draft", signatures |-> <<>>, updated_at |-> 0,
     provider_did |-> provider, consumer_did |-> consumer]

\* The row as inserted for a new Model: Draft, no signatures.
NewRow == ModelNew(provider_did, consumer_did)

\* No sign_contract call in flight.
IdleCall ==
    [pc |-> "idle", signer_did |-> "", signature |-> "", contract |-> NewRow,
     is_valid |-> "", result |-> ""]

\* Contract::new; the service is not in use.
Init ==
    /\ parties = <<>>
    /\ status = "Draft"
    /\ termination_reason = {}
    /\ now = 0
    /\ ret = [op |-> "new", res |-> "Ok"]
    /\ db = NewRow
    /\ chain = EmptyBag
    /\ calls = <<>>
    /\ challenge = {}
    /\ cache = <<>>
    /\ rcalls = <<>>
    /\ lock = <<>>

Next ==
    \/ \E did \in DIDs, role \in PartyRole : AddParty(did, role)
    \/ \E did \in DIDs, signature \in Sigs : Sign(did, signature)
    \/ \E reason \in Reasons : Terminate(reason)
    \/ Tick

Spec == Init /\ [][Next]_vars

\* A contract that only receives add_party calls (test_add_parties,
\* test_multiple_data_providers).
PartyNext == \E did \in DIDs, role \in PartyRole : AddParty(did, role)

PartySpec == Init /\ [][PartyNext]_vars

\* ======================================================================
\* ContractService::sign_contract over the persisted row
\* (services/contract.rs lines 65-130, models/contract.rs lines 256-356)
\* ======================================================================

\* Concurrent sign_contract calls explored (API handlers run concurrently).
NumCalls == 2
CallIds == 1..NumCalls

\* The DIDs sign_contract is called with: the two parties and an outsider.
Signers == {provider_did, consumer_did, "did:example:infra"}

\* What DIDVerifier::verify_signature returns for the submitted signature:
\* Ok(true), Ok(false) or Err(_) (resolution and cryptography are external).
VerifyOutcomes == {"Ok(true)", "Ok(false)", "Err"}

\* signer_did != provider_did && signer_did != consumer_did
Unauthorized(row, signer_did) ==
    signer_did # row.provider_did /\ signer_did # row.consumer_did

\* self.signatures.iter().any(|s| s.signer_did == did)  (is_signed_by)
IsSignedBy(row, did) ==
    \E i \in DOMAIN row.signatures : row.signatures[i].signer_did = did

\* The status add_signature assigns from signatures.len()
StatusByLen(row) ==
    CASE Len(row.signatures) = 1 -> "PendingSignatures"
      [] Len(row.signatures) = 2 -> "Active"
      [] OTHER -> row.status

\* Model::add_signature on a row: <<result, row after the call>>
AddSignature(row, sig) ==
    IF Unauthorized(row, sig.signer_did)
    THEN <<"Unauthorized signer", row>>
    ELSE IF IsSignedBy(row, sig.signer_did)
    THEN <<"Contract already signed by this DID", row>>
    ELSE LET pushed == [row EXCEPT !.signatures = Append(@, sig)]
         IN  <<"Ok", [pushed EXCEPT !.status = StatusByLen(pushed),
                                    !.updated_at = now]>>

\* sign_contract up to the verification: get_contract reads the row, then the
\* signer is checked against provider_did and consumer_did.
SvcGet(c, signer_did, signature) ==
    /\ calls[c].pc = "idle"
    /\ calls' = [calls EXCEPT ![c] =
          IF Unauthorized(db, signer_did)
          THEN [IdleCall EXCEPT !.pc = "done", !.signer_did = signer_did,
                                !.signature = signature, !.contract = db,
                                !.result = "Unauthorized signer"]
          ELSE [IdleCall EXCEPT !.pc = "verify", !.signer_did = signer_did,
                                !.signature = signature, !.contract = db]]
    /\ UNCHANGED <<contractVars, authVars, now, db, chain>>

\* The outcome handled without the `if !is_valid` return: only an error ends
\* the call before add_signature.
AfterVerifyUnchecked(call, outcome) ==
    IF outcome = "Err"
    THEN [call EXCEPT !.pc = "done", !.is_valid = outcome,
                      !.result = "Signature verification failed"]
    ELSE LET added == AddSignature(call.contract,
                         [signer_did |-> call.signer_did,
                          signature |-> call.signature, signed_at |-> now])
         IN  IF added[1] = "Ok"
             THEN [call EXCEPT !.pc = "update", !.is_valid = outcome,
                               !.contract = added[2]]
             ELSE [call EXCEPT !.pc = "done", !.is_valid = outcome,
                               !.result = added[1]]

\* What the call does once verify_signature has returned outcome: an error or
\* false ends it, true goes on to add_signature on the call's copy of the row.
AfterVerify(call, outcome) ==
    IF outcome = "Err"
    THEN [call EXCEPT !.pc = "done", !.is_valid = outcome,
                      !.result = "Signature verification failed"]
    ELSE IF outcome = "Ok(false)"
    THEN [call EXCEPT !.pc = "done", !.is_valid = outcome,
                      !.result = "Invalid signature"]
    ELSE LET added == AddSignature(call.contract,
                         [signer_did |-> call.signer_did,
                          signature |-> call.signature, signed_at |-> now])
         IN  IF added[1] = "Ok"
             THEN [call EXCEPT !.pc = "update", !.is_valid = outcome,
                               !.contract = added[2]]
             ELSE [call EXCEPT !.pc = "done", !.is_valid = outcome,
                               !.result = added[1]]

\* verify_signature returns; the call checks the outcome and adds the signature.
SvcVerify(c) ==
    /\ calls[c].pc = "verify"
    /\ \E outcome \in VerifyOutcomes :
          calls' = [calls EXCEPT ![c] = AfterVerify(calls[c], outcome)]
    /\ UNCHANGED <<contractVars, authVars, now, db, chain>>

\* contract::Entity::update(model).exec(&self.db): the whole row is written.
SvcUpdate(c) ==
    /\ calls[c].pc = "update"
    /\ db' = calls[c].contract
    /\ calls' = [calls EXCEPT ![c].pc = "record"]
    /\ UNCHANGED <<contractVars, authVars, now, chain>>

\* blockchain_service.record_signature(..), then Ok(contract).
SvcRecord(c) ==
    /\ calls[c].pc = "record"
    /\ chain' = chain (+) SetToBag({[signer_did |-> calls[c].signer_did,
                                     signature |-> calls[c].signature]})
    /\ calls' = [calls EXCEPT ![c].pc = "done", ![c].result = "Ok"]
    /\ UNCHANGED <<contractVars, authVars, now, db>>

\* The caller takes the result; the handler can serve another request.
SvcReturn(c) ==
    /\ calls[c].pc = "done"
    /\ calls' = [calls EXCEPT ![c] = IdleCall]
    /\ UNCHANGED <<contractVars, authVars, now, db, chain>>

\* A Draft row with no signatures, no call in flight. The clock does not
\* advance in this specification: signed_at and updated_at stay at 0.
SvcInit ==
    /\ parties = <<>>
    /\ status = "Draft"
    /\ termination_reason = {}
    /\ now = 0
    /\ ret = [op |-> "new", res |-> "Ok"]
    /\ db = NewRow
    /\ chain = EmptyBag
    /\ calls = [c \in CallIds |-> IdleCall]
    /\ challenge = {}
    /\ cache = <<>>
    /\ rcalls = <<>>
    /\ lock = <<>>

SvcNext ==
    \/ \E c \in CallIds, signer_did \in Signers, signature \in Sigs :
          SvcGet(c, signer_did, signature)
    \/ \E c \in CallIds : SvcVerify(c)
    \/ \E c \in CallIds : SvcUpdate(c)
    \/ \E c \in CallIds : SvcRecord(c)
    \/ \E c \in CallIds : SvcReturn(c)

SvcSpec == SvcInit /\ [][SvcNext]_vars

\* ----------------------------------------------------------------------
\* Model::add_signature called directly on a row made by Model::new
\* (models/contract.rs lines 278-355)
\* ----------------------------------------------------------------------

\* self.signatures.len() == 2
IsFullySigned(row) == Len(row.signatures) = 2

\* add_signature(ContractSignature { signer_did, signature, signed_at: now })
add_signature(signer_did, signature) ==
    LET added == AddSignature(db, [signer_did |-> signer_did,
                                   signature |-> signature, signed_at |-> now])
    IN  /\ db' = added[2]
        /\ ret' = [op |-> "add_signature", signer_did |-> signer_did,
                   res |-> added[1]]
        /\ UNCHANGED <<parties, status, termination_reason, now, chain, calls,
                       authVars>>

\* Model::new with any provider_did and consumer_did: new takes two Strings
\* and checks nothing about them.
ModelInit ==
    /\ parties = <<>>
    /\ status = "Draft"
    /\ termination_reason = {}
    /\ now = 0
    /\ ret = [op |-> "new", res |-> "Ok"]
    /\ db \in {ModelNew(provider, consumer) : provider \in Signers, consumer \in Signers}
    /\ chain = EmptyBag
    /\ calls = <<>>
    /\ challenge = {}
    /\ cache = <<>>
    /\ rcalls = <<>>
    /\ lock = <<>>

ModelNext ==
    \/ \E signer_did \in Signers, signature \in Sigs :
          add_signature(signer_did, signature)
    \/ Tick

ModelSpec == ModelInit /\ [][ModelNext]_vars

\* ----------------------------------------------------------------------
\* Signing a complete contract: the state after the add_party calls of
\* test_signing_flow / test_signing_flow_multiple_providers, in any order of
\* the parties, followed by sign() calls only.
\* ----------------------------------------------------------------------

\* validate()'s party counts
CountRole(ps, role) == Cardinality({i \in DOMAIN ps : ps[i].role = role})

\* The role checks of validate(): no error pushed for the parties.
RolesValid(ps) ==
    /\ CountRole(ps, "DataProvider") # 0
    /\ CountRole(ps, "DataConsumer") = 1
    /\ CountRole(ps, "InfrastructureProvider") = 1

DistinctDids(ps) == \A i, j \in DOMAIN ps : ps[i].did = ps[j].did => i = j

\* The party vectors add_party builds from N data providers, one consumer and
\* one infrastructure provider with distinct DIDs, N >= 1.
CompleteParties ==
    LET n == Cardinality(DIDs)
        Unsigned == {NewParty(d, r) : d \in DIDs, r \in PartyRole}
    IN  {ps \in UNION {[1..k -> Unsigned] : k \in 3..n} :
            RolesValid(ps) /\ DistinctDids(ps)}

SignInit ==
    /\ parties \in CompleteParties
    /\ status = "Draft"
    /\ termination_reason = {}
    /\ now = 0
    /\ ret = [op |-> "add_party", res |-> "Ok"]
    /\ db = NewRow
    /\ chain = EmptyBag
    /\ calls = <<>>
    /\ challenge = {}
    /\ cache = <<>>
    /\ rcalls = <<>>
    /\ lock = <<>>

SignNext ==
    \/ \E did \in DIDs, signature \in Sigs : Sign(did, signature)
    \/ Tick

SignSpec == SignInit /\ [][SignNext]_vars

\* ======================================================================
\* The signing message and ContractService::verify_contract_signatures
\* (models/contract.rs lines 304-322, services/contract.rs lines 160-210)
\* ======================================================================

\* The string Model::generate_signing_message formats at time t, by its
\* fields: id, title, the DIDs, valid_from and the terms are fixed at creation,
\* the last field is Utc::now().
SigningMessage(t) ==
    [header |-> "Contract Signature Request", id |-> "id1", title |-> "title1",
     provider_did |-> provider_did, consumer_did |-> consumer_did,
     valid_from |-> 0, terms_hash |-> "sha256(terms1)", timestamp |-> t]

\* The private keys signatures are made with, named by the DID they belong to.
Keys == {"did:example:provider1", "did:example:consumer", "did:example:infra"}

\* The signature strings submitted at time t: the signing message generated at
\* t, signed with one of the keys.
SignaturesAt(t) == {[key |-> k, message |-> SigningMessage(t)] : k \in Keys}

\* DIDVerifier::verify_signature(did, message, signature, method): an error
\* when the DID does not resolve, else whether the signature was made over
\* message with the key of did.
VerifySignature(did, message, signature, unresolved) ==
    IF did \in unresolved THEN "Err"
    ELSE IF signature.key = did /\ signature.message = message
    THEN "Ok(true)"
    ELSE "Ok(false)"

\* self.parties.iter().find(|p| p.role == role): index of the first, 0 if none
FindRole(ps, role) ==
    IF HasRole(ps, role)
    THEN CHOOSE i \in DOMAIN ps :
            /\ ps[i].role = role
            /\ \A j \in DOMAIN ps : ps[j].role = role => i <= j
    ELSE 0

\* The body of the loop over the data providers: the value returned, or
\* "continue" when the loop goes on to the next provider.
ProviderCheck(p, message, unresolved) ==
    IF p.signature = {} THEN "Ok(false)"
    ELSE LET is_valid == VerifySignature(p.did, message,
                             CHOOSE sig \in p.signature : TRUE, unresolved)
         IN  IF is_valid = "Ok(true)" THEN "continue" ELSE is_valid

\* What verify_contract_signatures returns for the parties ps and message.
VerifyResult(ps, message, unresolved) ==
    LET data_consumer == FindRole(ps, "DataConsumer")
        infra_provider == FindRole(ps, "InfrastructureProvider")
        stops == {i \in DOMAIN ps :
                     /\ ps[i].role = "DataProvider"
                     /\ ProviderCheck(ps[i], message, unresolved) # "continue"}
    IN  IF data_consumer = 0 THEN "Ok(false)"
        ELSE IF ps[data_consumer].signature = {} THEN "Ok(false)"
        ELSE IF infra_provider = 0 THEN "Ok(false)"
        ELSE IF ps[infra_provider].signature = {} THEN "Ok(false)"
        ELSE IF stops = {} THEN "Ok(true)"
        ELSE ProviderCheck(ps[CHOOSE i \in stops : \A j \in stops : i <= j],
                           message, unresolved)

\* Model::generate_signing_message, called at the current time.
GenerateSigningMessage ==
    /\ ret' = [op |-> "generate_signing_message", res |-> SigningMessage(now)]
    /\ UNCHANGED <<parties, status, termination_reason, now, svcVars, authVars>>

\* ContractService::verify_contract_signatures: the message is generated once,
\* at the start of the call; unresolved are the DIDs whose resolution fails.
VerifyContractSignatures(unresolved) ==
    /\ ret' = [op |-> "verify_contract_signatures",
               res |-> VerifyResult(parties, SigningMessage(now), unresolved)]
    /\ UNCHANGED <<parties, status, termination_reason, now, svcVars, authVars>>

\* The parties after the add_party calls of test_signing_flow.
TestParties ==
    <<NewParty("did:example:provider1", "DataProvider"),
      NewParty("did:example:consumer", "DataConsumer"),
      NewParty("did:example:infra", "InfrastructureProvider")>>

\* After one, two or all three of the add_party calls; signing follows.
VerifyInit ==
    /\ parties \in {SubSeq(TestParties, 1, k) : k \in 1..3}
    /\ status = "Draft"
    /\ termination_reason = {}
    /\ now = 0
    /\ ret = [op |-> "add_party", res |-> "Ok"]
    /\ db = NewRow
    /\ chain = EmptyBag
    /\ calls = <<>>
    /\ challenge = {}
    /\ cache = <<>>
    /\ rcalls = <<>>
    /\ lock = <<>>

VerifyNext ==
    \/ \E did \in DIDs, signature \in SignaturesAt(now) : Sign(did, signature)
    \/ GenerateSigningMessage
    \/ \E unresolved \in SUBSET {"did:example:provider1"} :
          VerifyContractSignatures(unresolved)
    \/ Tick

VerifySpec == VerifyInit /\ [][VerifyNext]_vars

\* ======================================================================
\* MultiResolver: DID resolution through a TTL cache
\* (auth/did/resolver.rs lines 24-84)
\* ======================================================================

\* MultiResolver.cache_ttl, in ticks of the clock.
cache_ttl == 1

\* The methods with a registered resolver, after register_resolver("example", ..)
resolvers == {EXAMPLE}

RECURSIVE Split(_, _)
\* s.split(sep).collect(): the pieces of s between the separators
Split(s, sep) ==
    IF \A i \in DOMAIN s : s[i] # sep
    THEN <<s>>
    ELSE LET k == CHOOSE i \in DOMAIN s :
                     s[i] = sep /\ \A j \in 1..(i - 1) : s[j] # sep
         IN  <<SubSeq(s, 1, k - 1)>> \o Split(SubSeq(s, k + 1, Len(s)), sep)

\* parse_did_method: Some(parts[1]) when there are two parts or more and the
\* first is "did".
parse_did_method(did) ==
    LET parts == Split(did, ":")
    IN  IF Len(parts) >= 2 /\ parts[1] = <<"d", "i", "d">>
        THEN {parts[2]}
        ELSE {}

\* Utc::now() - *timestamp > self.cache_ttl, the comparison turned around
IsFreshReversed(entry, t) == \E e \in entry : t - e.timestamp > cache_ttl

\* Utc::now() - *timestamp <= self.cache_ttl
IsFreshInclusive(entry, t) == \E e \in entry : t - e.timestamp <= cache_ttl

\* The cache lookup of resolve: an entry exists and
\* Utc::now() - *timestamp < self.cache_ttl.
IsFresh(entry, t) == \E e \in entry : t - e.timestamp < cache_ttl

\* The Document a DIDResolver builds for did when called at time t.
Document(did, t) == [id |-> did, updated |-> t]

\* The lookup of the method with every failure reported as InvalidFormat
MethodErrorAllInvalid(did) ==
    IF parse_did_method(did) \cap resolvers = {} THEN "InvalidFormat" ELSE ""

\* The error of parsing the method and finding its resolver; "" when the
\* method of did has a registered resolver.
MethodError(did) ==
    IF parse_did_method(did) = {} THEN "InvalidFormat"
    ELSE IF parse_did_method(did) \cap resolvers = {} THEN "ResolutionFailed"
    ELSE ""

\* resolve up to the call of the method's resolver: the cache is read under
\* the read lock, then the method is parsed and looked up in resolvers.
Lookup(did, entry, t) ==
    IF IsFresh(entry, t)
    THEN [IdleResolve EXCEPT !.pc = "done", !.did = did, !.result = "Ok",
                             !.document = {e.document : e \in entry}, !.at = t]
    ELSE IF MethodError(did) # ""
    THEN [IdleResolve EXCEPT !.pc = "done", !.did = did,
                             !.result = MethodError(did), !.at = t]
    ELSE [IdleResolve EXCEPT !.pc = "resolving", !.did = did]

\* MultiResolver::resolve(did) is called.
ResolveStart(c, did) ==
    /\ rcalls[c].pc = "idle"
    /\ rcalls' = [rcalls EXCEPT ![c] = Lookup(did, cache[did], now)]
    /\ UNCHANGED <<contractVars, svcVars, now, challenge, cache, lock>>

\* resolver.resolve(did).await?: an error ends the call, a document is kept
\* for the insertion.
AfterResolver(call, ok, t) ==
    IF ok
    THEN [call EXCEPT !.pc = "insert", !.invoked = TRUE,
                      !.document = {Document(call.did, t)}]
    ELSE [call EXCEPT !.pc = "done", !.invoked = TRUE,
                      !.result = "ResolverError", !.at = t]

\* The method's resolver returns Ok(document) or Err(_).
ResolverReturns(c) ==
    /\ rcalls[c].pc = "resolving"
    /\ \E ok \in BOOLEAN :
          rcalls' = [rcalls EXCEPT ![c] = AfterResolver(rcalls[c], ok, now)]
    /\ UNCHANGED <<contractVars, svcVars, now, challenge, cache, lock>>

\* The insertion made under the key "did:example:123" whatever the DID
CacheInsertAtFixedKey(c) ==
    /\ rcalls[c].pc = "insert"
    /\ cache' = [cache EXCEPT ![DidExample123] =
                    {[document |-> CHOOSE d \in rcalls[c].document : TRUE,
                      timestamp |-> now]}]
    /\ rcalls' = [rcalls EXCEPT ![c].pc = "done", ![c].result = "Ok",
                                ![c].at = now]
    /\ UNCHANGED <<contractVars, svcVars, now, challenge, lock>>

\* self.cache.write().await.insert(did, (document, Utc::now())); Ok(document).
CacheInsert(c) ==
    /\ rcalls[c].pc = "insert"
    /\ cache' = [cache EXCEPT ![rcalls[c].did] =
                    {[document |-> CHOOSE d \in rcalls[c].document : TRUE,
                      timestamp |-> now]}]
    /\ rcalls' = [rcalls EXCEPT ![c].pc = "done", ![c].result = "Ok",
                                ![c].at = now]
    /\ UNCHANGED <<contractVars, svcVars, now, challenge, lock>>

\* The caller takes the result.
ResolveReturn(c) ==
    /\ rcalls[c].pc = "done"
    /\ rcalls' = [rcalls EXCEPT ![c] = IdleResolve]
    /\ UNCHANGED <<contractVars, svcVars, now, challenge, cache, lock>>

\* MultiResolver::clear_cache; ret keeps the time of the call.
ClearCache ==
    /\ cache' = EmptyCache
    /\ ret' = [op |-> "clear_cache", res |-> "Ok", at |-> now]
    /\ UNCHANGED <<parties, status, termination_reason, svcVars, now, challenge,
                   rcalls, lock>>

\* MultiResolver::new(cache_ttl) and register_resolver("example", ..), as in
\* test_multi_resolver: an empty cache, no call in flight.
ResolverInit ==
    /\ parties = <<>>
    /\ status = "Draft"
    /\ termination_reason = {}
    /\ now = 0
    /\ ret = [op |-> "new", res |-> "Ok"]
    /\ db = NewRow
    /\ chain = EmptyBag
    /\ calls = <<>>
    /\ challenge = {}
    /\ cache = EmptyCache
    /\ rcalls = [c \in ResolveIds |-> IdleResolve]
    /\ lock = Unlocked

ResolverNext ==
    \/ \E c \in ResolveIds, did \in ResolveInputs : ResolveStart(c, did)
    \/ \E c \in ResolveIds : ResolverReturns(c)
    \/ \E c \in ResolveIds : CacheInsert(c)
    \/ \E c \in ResolveIds : ResolveReturn(c)
    \/ ClearCache
    \/ Tick

ResolverSpec == ResolverInit /\ [][ResolverNext]_vars

\* ----------------------------------------------------------------------
\* The same calls with the guards of the tokio RwLock around the cache made
\* explicit: read().await and write().await queue for the lock in the order
\* of their requests, and a guard is held from its grant to its drop.
\* ----------------------------------------------------------------------

\* The task of a clear_cache call.
CLEAR == "clear"

\* The DIDs resolved in these runs: one that reaches the resolver and the
\* cache, one that fails before them.
LockInputs == {DidExample123, Invalid}

Waiting(id) == \E i \in DOMAIN lock.queue : lock.queue[i].id = id

Holding(id) == id \in lock.readers \cup lock.writer

\* read() or write() is called: the task joins the queue of the lock.
Enqueue(l, id, mode) == [l EXCEPT !.queue = Append(@, [id |-> id, mode |-> mode])]

\* The guard of the task is dropped.
Release(l, id) == [l EXCEPT !.readers = @ \ {id}, !.writer = @ \ {id}]

\* The lock is granted to the first task of the queue: a read guard when no
\* write guard is held, the write guard when no guard is held.
Grant ==
    /\ lock.queue # <<>>
    /\ LET first == Head(lock.queue)
       IN  \/ /\ first.mode = "read"
              /\ lock.writer = {}
              /\ lock' = [lock EXCEPT !.readers = @ \cup {first.id},
                                      !.queue = Tail(@)]
           \/ /\ first.mode = "write"
              /\ lock.writer = {} /\ lock.readers = {}
              /\ lock' = [lock EXCEPT !.writer = {first.id}, !.queue = Tail(@)]
    /\ UNCHANGED <<contractVars, svcVars, now, challenge, cache, rcalls>>

\* resolve(did) is called and asks for the read guard: self.cache.read().
ReadRequest(c, did) ==
    /\ rcalls[c].pc = "idle"
    /\ rcalls' = [rcalls EXCEPT ![c] = [IdleResolve EXCEPT !.pc = "read",
                                                           !.did = did]]
    /\ lock' = Enqueue(lock, c, "read")
    /\ UNCHANGED <<contractVars, svcVars, now, challenge, cache>>

\* The lookup with the read guard kept after the if let
ReadCacheKeepingGuard(c) ==
    /\ rcalls[c].pc = "read"
    /\ c \in lock.readers
    /\ rcalls' = [rcalls EXCEPT ![c] =
                     Lookup(rcalls[c].did, cache[rcalls[c].did], now)]
    /\ UNCHANGED <<contractVars, svcVars, now, challenge, cache, lock>>

\* The if let of resolve under the read guard; the guard is a temporary of
\* the if let and is dropped where it ends or at the return inside it.
ReadCache(c) ==
    /\ rcalls[c].pc = "read"
    /\ c \in lock.readers
    /\ rcalls' = [rcalls EXCEPT ![c] =
                     Lookup(rcalls[c].did, cache[rcalls[c].did], now)]
    /\ lock' = Release(lock, c)
    /\ UNCHANGED <<contractVars, svcVars, now, challenge, cache>>

\* self.cache.write() is called with the document of the resolver.
WriteRequest(c) ==
    /\ rcalls[c].pc = "insert"
    /\ ~Waiting(c)
    /\ c \notin lock.writer
    /\ lock' = Enqueue(lock, c, "write")
    /\ UNCHANGED <<contractVars, svcVars, now, challenge, cache, rcalls>>

\* insert(did, (document, Utc::now())) under the write guard, which is
\* dropped at the end of the statement; Ok(document).
WriteCache(c) ==
    /\ rcalls[c].pc = "insert"
    /\ lock.writer = {c}
    /\ cache' = [cache EXCEPT ![rcalls[c].did] =
                    {[document |-> CHOOSE d \in rcalls[c].document : TRUE,
                      timestamp |-> now]}]
    /\ rcalls' = [rcalls EXCEPT ![c].pc = "done", ![c].result = "Ok",
                                ![c].at = now]
    /\ lock' = Release(lock, c)
    /\ UNCHANGED <<contractVars, svcVars, now, challenge>>

\* clear_cache() is called and asks for the write guard.
ClearRequest ==
    /\ ~Waiting(CLEAR)
    /\ ~Holding(CLEAR)
    /\ lock' = Enqueue(lock, CLEAR, "write")
    /\ UNCHANGED <<contractVars, svcVars, now, challenge, cache, rcalls>>

\* clear() under the write guard; clear_cache returns.
ClearLocked ==
    /\ lock.writer = {CLEAR}
    /\ cache' = EmptyCache
    /\ ret' = [op |-> "clear_cache", res |-> "Ok", at |-> now]
    /\ lock' = Release(lock, CLEAR)
    /\ UNCHANGED <<parties, status, termination_reason, svcVars, now, challenge,
                   rcalls>>

LockNext ==
    \/ \E c \in ResolveIds, did \in LockInputs : ReadRequest(c, did)
    \/ Grant
    \/ \E c \in ResolveIds : ReadCache(c)
    \/ \E c \in ResolveIds : ResolverReturns(c)
    \/ \E c \in ResolveIds : WriteRequest(c)
    \/ \E c \in ResolveIds : WriteCache(c)
    \/ \E c \in ResolveIds : ResolveReturn(c)
    \/ ClearRequest
    \/ ClearLocked

\* The runtime polls every task that can advance and the lock serves its
\* queue; each call of a method's resolver returns.  Nothing obliges a caller
\* to start a call.  The guards do not depend on the clock, which stands
\* still in these runs: an entry is a hit until the cache is cleared.
LockFairness ==
    /\ WF_vars(Grant)
    /\ WF_vars(ClearLocked)
    /\ \A c \in ResolveIds :
          /\ WF_vars(ReadCache(c))
          /\ WF_vars(ResolverReturns(c))
          /\ WF_vars(WriteRequest(c))
          /\ WF_vars(WriteCache(c))

LockSpec == ResolverInit /\ [][LockNext]_vars /\ LockFairness

\* ======================================================================
\* AuthChallenge: time-bounded authentication challenges
\* (auth/did/challenge.rs lines 8-68; the clock ticks in seconds)
\* ======================================================================

\* ChallengeConfig::default().timeout_seconds
DefaultTimeoutSeconds == 300

\* The timeout_seconds of the configs challenges are issued with: 0 as in
\* test_challenge_expiration, 1, and the default. `timeout_seconds as i64` is
\* the identity on these values (they are below 2^63).
TimeoutSeconds == {0, 1, DefaultTimeoutSeconds}

\* The values Uuid::new_v4() and generate_nonce draw.
ChallengeIds == {"uuid1", "uuid2"}
Nonces == {"nonce1", "nonce2"}

\* A string with a line of the challenge message inside it: new takes any
\* String as the did.
DidWithNonceLine == "did:example:infra\nNonce: nonce1"

\* The strings challenges are issued for.
ChallengeDids == Keys \cup {DidWithNonceLine}

\* The text of a string, cut into the pieces the message format can tell apart.
Text(s) ==
    IF s = DidWithNonceLine
    THEN <<"did:example:infra", "\nNonce: ", "nonce1">>
    ELSE <<s>>

\* AuthChallenge::new_with_config(did, config) at the current time.
NewWithConfig(did, timeout_seconds, id, nonce) ==
    /\ challenge' = {[challenge_id |-> id, did |-> did, nonce |-> nonce,
                      timestamp |-> now, expiration |-> now + timeout_seconds]}
    /\ ret' = [op |-> "new_with_config", res |-> "Ok", at |-> now]
    /\ UNCHANGED <<parties, status, termination_reason, now, svcVars,
                   cache, rcalls, lock>>

\* AuthChallenge::new(did): new_with_config with the default config.
New(did, id, nonce) == NewWithConfig(did, DefaultTimeoutSeconds, id, nonce)

\* The expiry test with the boundary counted as expired
ExpiredFromExpiration(c, t) == t >= c.expiration

\* Utc::now() > self.expiration
Expired(c, t) == t > c.expiration

\* AuthChallenge::verify_expiration on the challenge held.
VerifyExpiration ==
    /\ \E c \in challenge :
          ret' = [op |-> "verify_expiration",
                  res |-> IF Expired(c, now) THEN "ChallengeExpired" ELSE "Ok",
                  at |-> now]
    /\ UNCHANGED <<parties, status, termination_reason, now, svcVars, authVars>>

\* The message with the current time in its last line
ChallengeMessageAtNow(c) ==
    <<"Sign this challenge for DID authentication:", "\nChallenge ID: ">>
    \o Text(c.challenge_id) \o <<"\nDID: ">> \o Text(c.did)
    \o <<"\nNonce: ">> \o Text(c.nonce)
    \o <<"\nTimestamp: ", ToString(now)>>

\* The string AuthChallenge::generate_message formats: the literal pieces of
\* the format string and the texts of challenge_id, did, nonce and timestamp,
\* concatenated.
ChallengeMessage(c) ==
    <<"Sign this challenge for DID authentication:", "\nChallenge ID: ">>
    \o Text(c.challenge_id) \o <<"\nDID: ">> \o Text(c.did)
    \o <<"\nNonce: ">> \o Text(c.nonce)
    \o <<"\nTimestamp: ", ToString(c.timestamp)>>

\* AuthChallenge::generate_message on the challenge held.
GenerateMessage ==
    /\ \E c \in challenge :
          ret' = [op |-> "generate_message", res |-> ChallengeMessage(c),
                  at |-> now]
    /\ UNCHANGED <<parties, status, termination_reason, now, svcVars, authVars>>

\* authenticate(did, challenge, signature, verification_method_id): the
\* expiration check, then verify_signature over the challenge's message. The
\* signature presented is the message signed with key.
Authenticate(key, unresolved) ==
    /\ \E c \in challenge :
          ret' = [op |-> "authenticate",
                  res |-> IF Expired(c, now) THEN "ChallengeExpired"
                          ELSE VerifySignature(c.did, ChallengeMessage(c),
                                  [key |-> key, message |-> ChallengeMessage(c)],
                                  unresolved),
                  at |-> now]
    /\ UNCHANGED <<parties, status, termination_reason, now, svcVars, authVars>>

\* No challenge has been issued.
ChallengeInit ==
    /\ parties = <<>>
    /\ status = "Draft"
    /\ termination_reason = {}
    /\ now = 0
    /\ ret = [op |-> "new", res |-> "Ok"]
    /\ db = NewRow
    /\ chain = EmptyBag
    /\ calls = <<>>
    /\ challenge = {}
    /\ cache = <<>>
    /\ rcalls = <<>>
    /\ lock = <<>>

ChallengeNext ==
    \/ \E did \in ChallengeDids, id \in ChallengeIds, nonce \in Nonces :
          New(did, id, nonce)
    \/ \E did \in ChallengeDids, timeout_seconds \in TimeoutSeconds,
          id \in ChallengeIds, nonce \in Nonces :
          NewWithConfig(did, timeout_seconds, id, nonce)
    \/ VerifyExpiration
    \/ GenerateMessage
    \/ \E key \in Keys, unresolved \in SUBSET {"did:example:provider1"} :
          Authenticate(key, unresolved)
    \/ Tick

ChallengeSpec == ChallengeInit /\ [][ChallengeNext]_vars

\* ======================================================================
\* verify_ed25519: base58 decoding and Ed25519 verification
\* (auth/did/verification.rs lines 64-80; byte strings are sequences of
\* numbers in 0..255, strings are sequences of characters)
\* ======================================================================

\* The lengths PublicKey::from_bytes and Signature::from_bytes require, scaled
\* down from 32 and 64 bytes.
PublicKeyLength == 1
SignatureLength == 2

\* The alphabet of bs58 (no "0", "O", "I", "l").
Base58Alphabet ==
    <<"1", "2", "3", "4", "5", "6", "7", "8", "9", "A",
      "B", "C", "D", "E", "F", "G", "H", "J", "K", "L",
      "M", "N", "P", "Q", "R", "S", "T", "U", "V", "W",
      "X", "Y", "Z", "a", "b", "c", "d", "e", "f", "g",
      "h", "i", "j", "k", "m", "n", "o", "p", "q", "r",
      "s", "t", "u", "v", "w", "x", "y", "z">>

\* The value of a base58 character: its place in the alphabet, from 0.
Base58Value(ch) == (CHOOSE i \in DOMAIN Base58Alphabet : Base58Alphabet[i] = ch) - 1

\* The number of leading elements of s equal to x.
Leading(s, x) ==
    IF \A i \in DOMAIN s : s[i] = x THEN Len(s)
    ELSE (CHOOSE i \in DOMAIN s : s[i] # x /\ \A j \in 1..(i - 1) : s[j] = x) - 1

RECURSIVE FromDigits(_, _)
\* The number whose digits in the given base are ds, most significant first.
FromDigits(ds, base) ==
    IF ds = <<>> THEN 0
    ELSE FromDigits(SubSeq(ds, 1, Len(ds) - 1), base) * base + ds[Len(ds)]

RECURSIVE ToDigits(_, _)
\* The digits of n in the given base, most significant first; none for 0.
ToDigits(n, base) ==
    IF n = 0 THEN <<>>
    ELSE Append(ToDigits(n \div base, base), n % base)

\* bs58::encode(bytes).into_string(): one "1" per leading zero byte, then the
\* base-58 digits of the number the bytes spell.
Base58Encode(bytes) ==
    LET digits == ToDigits(FromDigits(bytes, 256), 58)
    IN  [i \in 1..Leading(bytes, 0) |-> "1"]
        \o [i \in 1..Len(digits) |-> Base58Alphabet[digits[i] + 1]]

\* bs58 decoding that skips the leading "1" characters
Base58DecodeDroppingOnes(str) ==
    IF \E i \in DOMAIN str : \A j \in DOMAIN Base58Alphabet : Base58Alphabet[j] # str[i]
    THEN {}
    ELSE {ToDigits(FromDigits([i \in 1..Len(str) |-> Base58Value(str[i])], 58),
                   256)}

\* bs58::decode(s).into_vec(): None (an error) when a character is not in the
\* alphabet, else one zero byte per leading "1" and the bytes of the number.
Base58Decode(str) ==
    IF \E i \in DOMAIN str : \A j \in DOMAIN Base58Alphabet : Base58Alphabet[j] # str[i]
    THEN {}
    ELSE {[i \in 1..Leading(str, "1") |-> 0]
          \o ToDigits(FromDigits([i \in 1..Len(str) |-> Base58Value(str[i])], 58),
                      256)}

\* The key pairs of Keypair::generate, and the messages signed.
KeyPairs == {1, 2}
Messages == {"Test message", "Other message"}

\* keypair.public.as_bytes(): the first key starts with a zero byte.
PublicKeyBytes(k) == [i \in 1..PublicKeyLength |-> (k - 1) * 7 + i - 1]

\* The byte strings that are curve points: the public keys and one point
\* whose private key nobody holds.
ValidPoints ==
    {PublicKeyBytes(k) : k \in KeyPairs} \cup {[i \in 1..PublicKeyLength |-> 200]}

\* The number the bytes of the message are hashed to.
MessageNumber(message) == IF message = "Test message" THEN 248 ELSE 100

\* keypair.sign(message).to_bytes(): Ed25519 signatures are deterministic, one
\* byte string for each key and message.
SignBytes(k, message) ==
    [i \in 1..SignatureLength |-> (MessageNumber(message) + 7 * k + i) % 256]

\* PublicKey::from_bytes: the length and the point are checked.
PublicKeyFromBytes(bytes) ==
    IF Len(bytes) = PublicKeyLength /\ bytes \in ValidPoints THEN {bytes} ELSE {}

\* Signature::from_bytes taking a byte string of any length
SignatureFromBytesAnyLength(bytes) == {bytes}

\* Signature::from_bytes: the length is checked.
SignatureFromBytes(bytes) ==
    IF Len(bytes) = SignatureLength THEN {bytes} ELSE {}

\* public_key.verify(message.as_bytes(), &signature).is_ok(): the signature
\* is the one the private key of public_key makes over the message.
Ed25519Verify(pk, message, sig) ==
    \E k \in KeyPairs : pk = PublicKeyBytes(k) /\ sig = SignBytes(k, message)

\* verify_ed25519(message, signature, public_key): every `?` returns
\* Err(DIDError::InvalidSignature); the last line returns Ok(bool).
VerifyEd25519(message, signature, public_key) ==
    IF Base58Decode(public_key) = {} \/ Base58Decode(signature) = {}
    THEN "InvalidSignature"
    ELSE LET pk == PublicKeyFromBytes(CHOOSE b \in Base58Decode(public_key) : TRUE)
             sig == SignatureFromBytes(CHOOSE b \in Base58Decode(signature) : TRUE)
         IN  IF pk = {} \/ sig = {}
             THEN "InvalidSignature"
             ELSE IF Ed25519Verify(CHOOSE b \in pk : TRUE, message,
                                   CHOOSE b \in sig : TRUE)
             THEN "Ok(true)"
             ELSE "Ok(false)"

\* The values a changed byte takes.
ByteValues == {0, 1, 128, 255}

\* The byte strings that differ from bytes in exactly one byte.
OneByteVariants(bytes) ==
    {[bytes EXCEPT ![i] = v] : i \in DOMAIN bytes, v \in ByteValues} \ {bytes}

\* The signature strings verify_ed25519 is called with: the base58 of each
\* signature, of its one-byte variants, of a signature cut short and of one
\* too long, and "invalid_signature" (test_invalid_ed25519_signature).
SignatureStrings ==
    LET made == {SignBytes(k, m) : k \in KeyPairs, m \in Messages}
    IN  {Base58Encode(b) :
            b \in made \cup UNION {OneByteVariants(g) : g \in made}
                  \cup {SubSeq(g, 1, Len(g) - 1) : g \in made}
                  \cup {Append(g, 0) : g \in made}}
        \cup {<<"i", "n", "v", "a", "l", "i", "d", "_", "s", "i", "g", "n", "a", "t", "u", "r", "e">>}

\* The public key strings: the base58 of each point, of a byte string that is
\* no point, of a key with a byte too many, and a string with "0" in it.
PublicKeyStrings ==
    {Base58Encode(b) :
        b \in ValidPoints \cup {[i \in 1..PublicKeyLength |-> 99]}
              \cup {Append(PublicKeyBytes(k), 0) : k \in KeyPairs}}
    \cup {<<"0", "x">>}

\* The arguments of a call of verify_ed25519 that has not run yet.
Ed25519Init ==
    /\ parties = <<>>
    /\ status = "Draft"
    /\ termination_reason = {}
    /\ now = 0
    /\ ret \in [op : {"call"}, message : Messages, signature : SignatureStrings,
                public_key : PublicKeyStrings, res : {""}]
    /\ db = NewRow
    /\ chain = EmptyBag
    /\ calls = <<>>
    /\ challenge = {}
    /\ cache = <<>>
    /\ rcalls = <<>>
    /\ lock = <<>>

\* The call of verify_ed25519 runs and returns.
VerifyEd25519Call ==
    /\ ret.op = "call"
    /\ ret' = [ret EXCEPT !.op = "verify_ed25519",
                          !.res = VerifyEd25519(ret.message, ret.signature,
                                                ret.public_key)]
    /\ UNCHANGED <<parties, status, termination_reason, now, svcVars, authVars>>

Ed25519Next == VerifyEd25519Call

Ed25519Spec == Ed25519Init /\ [][Ed25519Next]_vars

\* ======================================================================
\* services/contracts.rs: the contracts row and the contract_signatures
\* table behind the HTTP API.  A request is one step.
\* ======================================================================

UserIds == {"provider", "consumer", "stranger"}

\* api/contracts.rs ContractStatus.
RowStatus == {"Draft", "PendingSignature", "Active", "Completed", "Terminated"}

\* UpdateContractRequest.status: Option<ContractStatus>.
RequestStatus == {{}} \cup {{st} : st \in RowStatus}

\* The row create_contract inserts, with no signatures.
CreatedContract ==
    [provider_id |-> "provider", consumer_id |-> "consumer", status |-> "Draft",
     contract_signatures |-> {}]

IsParty(contract, user_id) ==
    contract.provider_id = user_id \/ contract.consumer_id = user_id

update_contract(user_id, request) ==
    /\ IF ~IsParty(db, user_id)
       THEN /\ ret' = [op |-> "update_contract", user_id |-> user_id,
                       request |-> request, res |-> "Forbidden"]
            /\ UNCHANGED db
       ELSE /\ db' = [db EXCEPT !.status = IF request = {} THEN @
                                           ELSE CHOOSE st \in request : TRUE]
            /\ ret' = [op |-> "update_contract", user_id |-> user_id,
                       request |-> request, res |-> "Ok"]
    /\ UNCHANGED <<parties, status, termination_reason, now, chain, calls, authVars>>

sign_contract(user_id) ==
    LET reply(res) == [op |-> "sign_contract", user_id |-> user_id,
                       request |-> {}, res |-> res]
        inserted == db.contract_signatures \cup {user_id}
    IN  /\ IF ~IsParty(db, user_id)
           THEN ret' = reply("Forbidden") /\ UNCHANGED db
           ELSE IF db.status # "Draft" /\ db.status # "PendingSignature"
           THEN ret' = reply("InvalidContractState") /\ UNCHANGED db
           ELSE IF user_id \in db.contract_signatures
           THEN ret' = reply("InvalidContractState") /\ UNCHANGED db
           ELSE /\ db' = [db EXCEPT !.contract_signatures = inserted,
                                    !.status = IF Cardinality(inserted) = 1
                                               THEN "PendingSignature"
                                               ELSE "Active"]
                /\ ret' = reply("Ok")
        /\ UNCHANGED <<parties, status, termination_reason, now, chain, calls, authVars>>

terminate_contract(user_id) ==
    LET reply(res) == [op |-> "terminate_contract", user_id |-> user_id,
                       request |-> {}, res |-> res]
    IN  /\ IF ~IsParty(db, user_id)
           THEN ret' = reply("Forbidden") /\ UNCHANGED db
           ELSE IF db.status # "Active"
           THEN ret' = reply("InvalidContractState") /\ UNCHANGED db
           ELSE /\ db' = [db EXCEPT !.status = "Terminated"]
                /\ ret' = reply("Ok")
        /\ UNCHANGED <<parties, status, termination_reason, now, chain, calls, authVars>>

ContractsInit ==
    /\ parties = <<>>
    /\ status = "Draft"
    /\ termination_reason = {}
    /\ now = 0
    /\ ret = [op |-> "create_contract", user_id |-> "provider", request |-> {},
              res |-> "Ok"]
    /\ db = CreatedContract
    /\ chain = EmptyBag
    /\ calls = <<>>
    /\ challenge = {}
    /\ cache = <<>>
    /\ rcalls = <<>>
    /\ lock = <<>>

ContractsNext ==
    \/ \E user_id \in UserIds, request \in RequestStatus : update_contract(user_id, request)
    \/ \E user_id \in UserIds : sign_contract(user_id)
    \/ \E user_id \in UserIds : terminate_contract(user_id)

ContractsSpec == ContractsInit /\ [][ContractsNext]_vars

\* ======================================================================
\* Claims about Contract
\* ======================================================================

\* The DIDs that have signed: one per party with a recorded signature.
SignedDids(ps) == {ps[i].did : i \in {j \in DOMAIN ps : ps[j].signature # {}}}

\* C1: with N data providers, one consumer and one infrastructure provider of
\* distinct DIDs, after every successful sign() the status is Active exactly
\* when N+2 distinct DIDs have signed and PendingSignatures otherwise, and the
\* contract is never Active with fewer than N+2 distinct signers.
C1_ActiveAtQuorum ==
    LET n == CountRole(parties, "DataProvider")
        k == Cardinality(SignedDids(parties))
    IN  /\ (ret.op = "sign" /\ ret.res = "Ok") =>
              status = IF k = n + 2 THEN "Active" ELSE "PendingSignatures"
        /\ status = "Active" => k = n + 2

\* C1 witness: two data providers, and the fourth distinct signer has just
\* made the contract Active.
C1_Witness ==
    /\ CountRole(parties, "DataProvider") = 2
    /\ Cardinality(SignedDids(parties)) = 4
    /\ ret = [op |-> "sign", res |-> "Ok"]
    /\ status = "Active"

\* C2: whenever the status is Active every party has a signature.
C2_ActiveImpliesAllSigned == status = "Active" => AllSigned(parties)

\* The party sign() would find for did has a recorded signature.
AlreadySigned(ps, did) ==
    FindParty(ps, did) # 0 /\ ps[FindParty(ps, did)].signature # {}

\* C3: a sign() for a DID whose party already has a signature is rejected with
\* AlreadySigned and leaves the parties (signature, signed_at) and the status
\* as they were.
C3_SecondSignRejected ==
    [][\A did \in DIDs, signature \in Sigs :
          (AlreadySigned(parties, did) /\ Sign(did, signature)) =>
              /\ ret'.res = "AlreadySigned"
              /\ UNCHANGED <<parties, status>>]_vars

\* C4: a sign() for a DID that is not a party fails with the not-a-party error
\* (the string "Party not found" of Contract::sign) and leaves the parties,
\* the status and the termination reason unchanged, whatever the status.
C4_UnknownSignerRejected ==
    [][\A did \in DIDs, signature \in Sigs :
          (~HasDid(parties, did) /\ Sign(did, signature)) =>
              /\ ret' = [op |-> "sign", res |-> "Party not found"]
              /\ UNCHANGED <<parties, status, termination_reason>>]_vars

\* C4 witness: a sign() by a non-party has just been rejected on an Active
\* contract (every party signed).
C4_Witness ==
    /\ ret = [op |-> "sign", res |-> "Party not found"]
    /\ status = "Active"
    /\ parties # <<>>
    /\ \E did \in DIDs : ~HasDid(parties, did)

\* C7: terminate() on a Terminated contract is rejected with
\* InvalidContractState and leaves status and termination_reason unchanged;
\* from any other status it is accepted.
C7_TerminateTwiceRejected ==
    [][\A reason \in Reasons : Terminate(reason) =>
          IF status = "Terminated"
          THEN /\ ret'.res = "InvalidContractState"
               /\ UNCHANGED <<status, termination_reason>>
          ELSE /\ ret'.res = "Ok"
               /\ status' = "Terminated"
               /\ termination_reason' = {reason}]_vars

\* C8: once Terminated, the status stays Terminated.
C8_TerminatedIsTerminal ==
    [][status = "Terminated" => status' = "Terminated"]_vars

\* Some party has a recorded signature.
SigningBegun(ps) == \E i \in DOMAIN ps : ps[i].signature # {}

\* C9: add_party is rejected, and the parties left unchanged, whenever some
\* party already has a recorded signature.
C9_NoPartyAfterSigning ==
    [][\A did \in DIDs, role \in PartyRole :
          (SigningBegun(parties) /\ AddParty(did, role)) =>
              /\ ret'.res # "Ok"
              /\ UNCHANGED parties]_vars

\* C10: no DID occurs in more than one entry of parties.
C10_DidsUnique == DistinctDids(parties)

\* C11: after every call in any sequence of add_party calls the contract holds
\* at most one DataConsumer and at most one InfrastructureProvider; an add_party with one
\* of these roles is rejected exactly when a party of that role exists, and an
\* add_party(DataProvider) exactly when the DID is already a party; a rejected
\* call leaves the parties unchanged.
C11_RoleCardinality ==
    [][/\ CountRole(parties', "DataConsumer") <= 1
       /\ CountRole(parties', "InfrastructureProvider") <= 1
       /\ \A did \in DIDs, role \in PartyRole : AddParty(did, role) =>
             /\ ret'.res # "Ok" <=>
                   IF role = "DataProvider" THEN HasDid(parties, did)
                                            ELSE HasRole(parties, role)
             /\ ret'.res # "Ok" => UNCHANGED parties]_vars

\* C11 witness: a second DataConsumer, under a DID that is not yet a party, has
\* just been rejected, next to a data provider.
C11_Witness ==
    /\ ret = [op |-> "add_party", res |-> "Party with role already exists"]
    /\ CountRole(parties, "DataConsumer") = 1
    /\ CountRole(parties, "DataProvider") = 1
    /\ \E did \in DIDs : ~HasDid(parties, did)

\* C12: the contract is Active only with a complete role set: at least one
\* DataProvider, exactly one DataConsumer and one InfrastructureProvider.
C12_ActiveHasCompleteRoles == status = "Active" => RolesValid(parties)

\* C13: the signing message depends only on fields fixed at creation: two
\* calls of generate_signing_message on the unmodified contract, at whatever
\* times, return the same string.
C13_SigningMessageFixed ==
    [][(/\ ret.op = "generate_signing_message"
        /\ ret'.op = "generate_signing_message") => ret'.res = ret.res]_vars

\* C14: verify_contract_signatures returns true only if every party (data
\* providers, data consumer and infrastructure provider alike) has a recorded
\* signature that verifies against the signing message.
C14_TrueOnlyIfAllVerify ==
    [][\A unresolved \in SUBSET {"did:example:provider1"} :
          (VerifyContractSignatures(unresolved) /\ ret'.res = "Ok(true)") =>
              \A i \in DOMAIN parties :
                  /\ parties[i].signature # {}
                  /\ \A sig \in parties[i].signature :
                        VerifySignature(parties[i].did, SigningMessage(now),
                                        sig, unresolved) = "Ok(true)"]_vars

\* ======================================================================
\* Claims about ContractService::sign_contract
\* ======================================================================

RowSignaturesOf(row, did) ==
    {i \in DOMAIN row.signatures : row.signatures[i].signer_did = did}

\* C6: of two concurrent sign_contract calls by the same signer at most one
\* returns Ok, and at most one signature of a signer is in the row.
C6_OneSignerOneSuccess ==
    /\ \A c1, c2 \in CallIds :
          (/\ c1 # c2
           /\ calls[c1].pc = "done" /\ calls[c1].result = "Ok"
           /\ calls[c2].pc = "done" /\ calls[c2].result = "Ok")
          => calls[c1].signer_did # calls[c2].signer_did
    /\ \A did \in Signers : Cardinality(RowSignaturesOf(db, did)) <= 1

\* C29: when two sign_contract calls in flight at once, by the two different
\* parties, have both succeeded, the persisted row holds both signatures and
\* the status derived from them.
C29_NoLostSignature ==
    \A c1, c2 \in CallIds :
        (/\ c1 # c2
         /\ calls[c1].pc = "done" /\ calls[c1].result = "Ok"
         /\ calls[c2].pc = "done" /\ calls[c2].result = "Ok"
         /\ calls[c1].signer_did # calls[c2].signer_did)
        => /\ IsSignedBy(db, calls[c1].signer_did)
           /\ IsSignedBy(db, calls[c2].signer_did)
           /\ db.status = "Active"

\* ======================================================================
\* Claims about Model::add_signature
\* ======================================================================

\* C30: after any add_signature calls on a new row, signatures holds at most
\* one entry per signer DID and only entries of provider_did or consumer_did;
\* status is Active, and is_fully_signed() true, exactly when both the
\* provider and the consumer have a signature in the row, and status is
\* PendingSignatures when exactly one of them has.
C30_TwoPartySignatures ==
    LET provider_signed == RowSignaturesOf(db, db.provider_did) # {}
        consumer_signed == RowSignaturesOf(db, db.consumer_did) # {}
    IN  /\ \A did \in Signers : Cardinality(RowSignaturesOf(db, did)) <= 1
        /\ \A i \in DOMAIN db.signatures :
              db.signatures[i].signer_did \in {db.provider_did, db.consumer_did}
        /\ db.status = "Active" <=> (provider_signed /\ consumer_signed)
        /\ IsFullySigned(db) <=> (provider_signed /\ consumer_signed)
        /\ (provider_signed # consumer_signed) => db.status = "PendingSignatures"

\* ======================================================================
\* Claims about MultiResolver
\* ======================================================================

\* C15: a resolve(d) called less than cache_ttl after a previous resolve(d)
\* completed successfully returns the cached document without invoking any
\* resolver.
C15_SecondResolveHits ==
    [][\A c1, c2 \in ResolveIds, did \in ResolveInputs :
          (/\ c1 # c2
           /\ rcalls[c1].pc = "done" /\ rcalls[c1].result = "Ok"
           /\ rcalls[c1].did = did
           /\ now - rcalls[c1].at < cache_ttl
           /\ ResolveStart(c2, did))
          => /\ rcalls'[c2].pc = "done" /\ rcalls'[c2].result = "Ok"
             /\ ~rcalls'[c2].invoked
             /\ rcalls'[c2].document = {e.document : e \in cache[did]}]_vars

\* C15 as amended: a resolve(d) called while the cache holds an entry for d
\* stored less than cache_ttl ago returns the document of that entry without
\* invoking any resolver and without changing the cache.
C15_FreshEntryHits ==
    [][\A c \in ResolveIds, did \in ResolveInputs :
          (/\ cache[did] # {}
           /\ \A e \in cache[did] : now - e.timestamp < cache_ttl
           /\ ResolveStart(c, did))
          => /\ rcalls'[c].pc = "done" /\ rcalls'[c].result = "Ok"
             /\ ~rcalls'[c].invoked
             /\ rcalls'[c].document = {e.document : e \in cache[did]}
             /\ UNCHANGED cache]_vars

\* C15 witness: one call stored the entry for a DID and a second call for the
\* same DID has returned the stored document without invoking the resolver.
C15_Witness ==
    \E c1, c2 \in ResolveIds :
        /\ c1 # c2
        /\ rcalls[c1].pc = "done" /\ rcalls[c1].result = "Ok"
        /\ rcalls[c1].invoked
        /\ rcalls[c2].pc = "done" /\ rcalls[c2].result = "Ok"
        /\ ~rcalls[c2].invoked
        /\ rcalls[c2].did = rcalls[c1].did
        /\ rcalls[c2].document = {e.document : e \in cache[rcalls[c2].did]}
        /\ rcalls[c2].document # {}

\* The form did:<method>:<rest>: three parts or more, the first "did", a
\* method and a method-specific id that are not empty.
WellFormedDid(did) ==
    LET parts == Split(did, ":")
    IN  /\ Len(parts) >= 3
        /\ parts[1] = <<"d", "i", "d">>
        /\ parts[2] # <<>>
        /\ parts[3] # <<>>

\* C16: a resolve of a string that is not of the form did:<method>:<rest>
\* fails with InvalidFormat, without invoking a resolver and without changing
\* the cache.
C16_MalformedRejected ==
    [][\A c \in ResolveIds, did \in ResolveInputs :
          (~WellFormedDid(did) /\ ResolveStart(c, did))
          => /\ rcalls'[c].pc = "done"
             /\ rcalls'[c].result = "InvalidFormat"
             /\ ~rcalls'[c].invoked
             /\ UNCHANGED cache]_vars

\* C17: a resolve of a well-formed DID whose method has no registered resolver,
\* with no fresh cache entry, fails with ResolutionFailed; a step that ends a
\* resolve in failure leaves the cache unchanged, and the cache changes only
\* when a call that returns Ok stores its document or the cache is cleared.
C17_FailureLeavesCache ==
    [][/\ \A c \in ResolveIds, did \in ResolveInputs :
             (/\ WellFormedDid(did)
              /\ parse_did_method(did) \cap resolvers = {}
              /\ ~IsFresh(cache[did], now)
              /\ ResolveStart(c, did))
             => /\ rcalls'[c].pc = "done"
                /\ rcalls'[c].result = "ResolutionFailed"
       /\ \A c \in ResolveIds :
             (/\ rcalls'[c] # rcalls[c]
              /\ rcalls'[c].pc = "done"
              /\ rcalls'[c].result # "Ok") => UNCHANGED cache
       /\ cache' # cache =>
             \/ cache' = EmptyCache
             \/ \E c \in ResolveIds :
                   /\ rcalls[c].pc = "insert"
                   /\ rcalls'[c].pc = "done" /\ rcalls'[c].result = "Ok"]_vars

\* C17 witness: with an entry in the cache, a resolve of "did:unknown:123" has
\* failed with ResolutionFailed and another resolve with the resolver's error.
C17_Witness ==
    \E c1, c2 \in ResolveIds :
        /\ rcalls[c1].pc = "done" /\ rcalls[c1].did = DidUnknown123
        /\ rcalls[c1].result = "ResolutionFailed"
        /\ rcalls[c2].pc = "done" /\ rcalls[c2].result = "ResolverError"
        /\ cache[DidExample123] # {}

\* C25: resolve(d) never returns a cached document whose age is cache_ttl or
\* more: with such an entry the call is a miss and the resolver of d's method
\* is invoked; a hit returns an entry younger than cache_ttl; and a call whose
\* resolver succeeded overwrites the entry with the new document stamped with
\* the current time.
C25_StaleEntryIsMiss ==
    [][\A c \in ResolveIds :
          /\ \A did \in ResolveInputs :
                (/\ \E e \in cache[did] : now - e.timestamp >= cache_ttl
                 /\ ResolveStart(c, did))
                => /\ ~(rcalls'[c].pc = "done" /\ rcalls'[c].result = "Ok")
                   /\ parse_did_method(did) \cap resolvers # {}
                         => rcalls'[c].pc = "resolving"
          /\ (/\ rcalls[c].pc = "idle"
              /\ rcalls'[c].pc = "done" /\ rcalls'[c].result = "Ok")
             => \A doc \in rcalls'[c].document :
                   \E e \in cache[rcalls'[c].did] :
                       e.document = doc /\ now - e.timestamp < cache_ttl
          /\ (rcalls[c].pc = "insert" /\ rcalls'[c].pc = "done")
             => /\ rcalls[c].invoked
                /\ rcalls'[c].result = "Ok"
                /\ rcalls'[c].document = rcalls[c].document
                /\ cache'[rcalls[c].did] =
                      {[document |-> doc, timestamp |-> now] :
                          doc \in rcalls[c].document}]_vars

\* C25 witness: a resolve of a DID whose entry has reached the age cache_ttl
\* is waiting for the resolver.
C25_Witness ==
    \E c \in ResolveIds :
        /\ rcalls[c].pc = "resolving"
        /\ \E e \in cache[rcalls[c].did] : now - e.timestamp >= cache_ttl

\* C26: a resolve(d) that starts after clear_cache() has completed does not
\* return a document the resolver produced before that clear_cache().
C26_NoDocumentFromBeforeClear ==
    [][\A c \in ResolveIds, did \in ResolveInputs :
          (/\ ret.op = "clear_cache"
           /\ ResolveStart(c, did)
           /\ rcalls'[c].pc = "done" /\ rcalls'[c].result = "Ok")
          => \A doc \in rcalls'[c].document : doc.updated >= ret.at]_vars

\* C27: every cached entry for d is one whole (document, timestamp) pair whose
\* document is the one a resolver produced for d, d's method having a
\* registered resolver, and every document a resolve holds or returns is the
\* document of the DID it was called with.
C27_DocumentsBelongToDid ==
    /\ \A did \in ResolveInputs :
          /\ Cardinality(cache[did]) <= 1
          /\ \A e \in cache[did] :
                /\ e.document.id = did
                /\ parse_did_method(did) # {}
                /\ parse_did_method(did) \subseteq resolvers
                /\ e.document.updated <= e.timestamp
                /\ e.timestamp <= now
    /\ \A c \in ResolveIds :
          /\ rcalls[c].pc = "done" /\ rcalls[c].result = "Ok"
                => rcalls[c].document # {}
          /\ \A doc \in rcalls[c].document :
                /\ doc.id = rcalls[c].did
                /\ parse_did_method(rcalls[c].did) \subseteq resolvers

\* C27 witness: two resolves of different DIDs of the same method hold their
\* documents at once, one having stored its entry and the other about to.
C27_Witness ==
    \E c1, c2 \in ResolveIds :
        /\ rcalls[c1].pc = "done" /\ rcalls[c1].result = "Ok" /\ rcalls[c1].invoked
        /\ rcalls[c2].pc = "insert"
        /\ rcalls[c1].did # rcalls[c2].did
        /\ cache[rcalls[c1].did] # {}

\* C28: no task asks for the write guard while it holds a read guard, and
\* every resolve and every clear_cache that has started returns.
C28_ResolveAndClearReturn ==
    /\ [](\A c \in ResolveIds : c \in lock.readers => ~Waiting(c))
    /\ \A c \in ResolveIds : (rcalls[c].pc # "idle") ~> (rcalls[c].pc = "done")
    /\ Waiting(CLEAR) ~> ~(Waiting(CLEAR) \/ Holding(CLEAR))

\* C28 witness: a resolve holds the write guard while the other resolve and a
\* clear_cache wait for the lock.
C28_Witness ==
    \E c1, c2 \in ResolveIds :
        /\ rcalls[c1].pc = "insert" /\ lock.writer = {c1}
        /\ rcalls[c2].pc = "read" /\ Waiting(c2)
        /\ Waiting(CLEAR)

\* ======================================================================
\* Claims about AuthChallenge
\* ======================================================================

\* C18: every challenge issued by new or new_with_config, whatever the
\* timeout_seconds of its config, has expiration > timestamp.
C18_ExpirationAfterTimestamp ==
    \A c \in challenge : c.expiration > c.timestamp

\* C19: verify_expiration returns Ok at every time now <= expiration, the
\* boundary now = expiration included, and ChallengeExpired at every time
\* now > expiration.
C19_ExpiryBoundary ==
    \A c \in challenge :
        ret.op = "verify_expiration" =>
            ret.res = IF ret.at <= c.expiration THEN "Ok" ELSE "ChallengeExpired"

\* C19 witness: a challenge issued with a timeout that is not zero has just
\* been verified at the very time it expires, and the answer was Ok.
C19_Witness ==
    \E c \in challenge :
        /\ c.expiration > c.timestamp
        /\ ret = [op |-> "verify_expiration", res |-> "Ok", at |-> c.expiration]

\* C20: once an authentication presenting the challenge has succeeded, every
\* later authentication presenting the same challenge is rejected.
C20_ChallengeConsumedOnce ==
    [][\A key \in Keys, unresolved \in SUBSET {"did:example:provider1"} :
          (/\ ret.op = "authenticate" /\ ret.res = "Ok(true)"
           /\ Authenticate(key, unresolved))
          => ret'.res # "Ok(true)"]_vars

\* The four fields generate_message formats.
MessageFields(c) == <<c.challenge_id, c.did, c.nonce, c.timestamp>>

\* C21: generate_message on the same challenge returns the same string at any
\* two times, and the message of the challenge held differs from the message
\* of every challenge that differs from it in challenge_id, did, nonce or
\* timestamp.
C21_MessageDeterministic ==
    [][/\ (/\ ret.op = "generate_message" /\ ret'.op = "generate_message"
           /\ challenge' = challenge) => ret'.res = ret.res
       /\ \A c \in challenge' :
             /\ ret'.op = "generate_message" => ret'.res = ChallengeMessage(c)
             /\ \A d \in [challenge_id : ChallengeIds, did : ChallengeDids,
                          nonce : Nonces, timestamp : Times] :
                   MessageFields(d) # MessageFields(c) =>
                       ChallengeMessage(d) # ChallengeMessage(c)]_vars

\* C21 witness: the message of a challenge issued for the string with a
\* message line inside has been generated at a time after its issue.
C21_Witness ==
    \E c \in challenge :
        /\ c.did = DidWithNonceLine
        /\ ret.op = "generate_message"
        /\ ret.at > c.timestamp
        /\ ret.res = ChallengeMessage(c)

\* ======================================================================
\* Claims about verify_ed25519
\* ======================================================================

\* The string is the base58 of a public key that from_bytes accepts.
DecodablePublicKey(str) == \E b \in ValidPoints : str = Base58Encode(b)

\* The string is the base58 of a byte string of the length of a signature.
DecodableSignature(str) ==
    /\ \A i \in DOMAIN str : \E j \in DOMAIN Base58Alphabet : Base58Alphabet[j] = str[i]
    /\ \E g \in {SignBytes(k, m) : k \in KeyPairs, m \in Messages} :
          str \in {Base58Encode(b) : b \in {g} \cup OneByteVariants(g)}

\* The string is the base58 of the signature some key pair with this public
\* key makes over the message.
Matches(message, signature, public_key) ==
    \E k \in KeyPairs :
        /\ public_key = Base58Encode(PublicKeyBytes(k))
        /\ signature = Base58Encode(SignBytes(k, message))

C23_RoundTrip ==
    ret.op = "verify_ed25519" =>
        \A k \in KeyPairs :
            ret.public_key = Base58Encode(PublicKeyBytes(k)) =>
                /\ ret.signature = Base58Encode(SignBytes(k, ret.message))
                      => ret.res = "Ok(true)"
                /\ ret.signature \in
                      {Base58Encode(b) : b \in OneByteVariants(SignBytes(k, ret.message))}
                      => ret.res # "Ok(true)"

\* C23 witness: the signature of the first key pair, whose public key and
\* signature start with a zero byte, has been verified.
C23_Witness ==
    /\ ret.op = "verify_ed25519"
    /\ ret.res = "Ok(true)"
    /\ ret.public_key = Base58Encode(PublicKeyBytes(1))
    /\ ret.signature[1] = "1"

\* ======================================================================
\* Claims about services/contracts.rs
\* ======================================================================

\* C24: a request to set the status of a Draft contract that has no
\* signatures to Active is rejected and the stored status stays Draft, and
\* the status becomes Active only by a sign_contract.
C24_NoActivationByUpdate ==
    [][/\ (/\ ret'.op = "update_contract"
           /\ ret'.request = {"Active"}
           /\ db.status = "Draft"
           /\ db.contract_signatures = {})
          => (ret'.res # "Ok" /\ db'.status = "Draft")
       /\ (db.status # "Active" /\ db'.status = "Active")
          => ret'.op = "sign_contract"]_vars

=============================================================================
